---- MODULE Spec2Model ----
(***************************************************************************)
(* Model of the environmental-monitoring dashboards src/app.py (HTTP       *)
(* ingestion, 4 metrics) and src/vs/app.py (MQTT ingestion, 6 metrics).    *)
(* Each program keeps one dict latest_data guarded by one threading.Lock;  *)
(* ingestion handlers overwrite it and the Dash callback update_metrics    *)
(* reads it every 2000 ms and derives the alert list.                      *)
(*                                                                         *)
(* Numbers are kept in tenths (24.5 is t = 245, the int 65 is t = 650), so *)
(* int() truncation and float() widening are computed, not assumed.        *)
(***************************************************************************)
EXTENDS Integers, Sequences, FiniteSets, TLC

(* ------------------------------ bounds --------------------------------- *)
\* datetime.now() is read from a clock that ticks at most MaxClock times.
MaxClock == 1

(* --------------------------- Python values ----------------------------- *)
\* A value: tag is the Python/JSON type, lit the lexical class of a string
\* ("int" for "25", "dec" for "25.5", "nan", "bad" for "abc", "iso" for a date) or "nan" for the
\* float NaN, t the magnitude in tenths.
Val(tag, lit, t) == [tag |-> tag, lit |-> lit, t |-> t]
PInt(n) == Val("int", "", 10 * n)
PFloat(t) == Val("float", "", t)
NaN == Val("float", "nan", 0)
PStr(lit, t) == Val("str", lit, t)
PNone == Val("none", "", 0)
PTime(c) == Val("time", "", c)
IsNaN(v) == v.tag = "float" /\ v.lit = "nan"

Ok(v) == [ok |-> TRUE, val |-> v, err |-> ""]
Raise(e) == [ok |-> FALSE, val |-> PNone, err |-> e]

\* int() of a float truncates toward zero.
Trunc(t) == IF t >= 0 THEN (t \div 10) * 10 ELSE -(((-t) \div 10) * 10)

\* float(x)
PyFloat(x) ==
    CASE x.tag = "int" -> Ok(PFloat(x.t))
      [] x.tag = "float" -> Ok(x)
      [] x.tag = "str" /\ x.lit \in {"int", "dec"} -> Ok(PFloat(x.t))
      [] x.tag = "str" /\ x.lit = "nan" -> Ok(NaN)
      [] x.tag = "str" -> Raise("could not convert string to float")
      [] OTHER -> Raise("float() argument must be a string or a real number")

\* int(x)
PyInt(x) ==
    CASE x.tag = "int" -> Ok(x)
      [] x.tag = "float" /\ IsNaN(x) -> Raise("cannot convert float NaN to integer")
      [] x.tag = "float" -> Ok(Val("int", "", Trunc(x.t)))
      [] x.tag = "str" /\ x.lit = "int" -> Ok(Val("int", "", x.t))
      [] x.tag = "str" -> Raise("invalid literal for int() with base 10")
      [] OTHER -> Raise("int() argument must be a string or a real number")

(* ------------------------------- dicts --------------------------------- *)
EmptyDict == [k \in {} |-> PNone]
Put(d, k, v) == [x \in DOMAIN d \cup {k} |-> IF x = k THEN v ELSE d[x]]
\* dict.update(other): keys of other are added or overwritten, the rest kept.
DictUpdate(d, other) ==
    [x \in DOMAIN d \cup DOMAIN other |-> IF x \in DOMAIN other THEN other[x] ELSE d[x]]
Restrict(d, ks) == [x \in ks |-> d[x]]

\* A decoded JSON document as Python sees it: kind is its Python type, has
\* the set of strings s with (s in doc) true, items the mapping of a dict.
Doc(kind, has, items) == [kind |-> kind, has |-> has, items |-> items]
Obj(items) == Doc("dict", DOMAIN items, items)
NoDoc == Doc("unset", {}, EmptyDict)

\* (key in doc): TypeError on None and on numbers.
Contains(doc, key) ==
    IF doc.kind \in {"dict", "list", "str"}
    THEN Ok(IF key \in doc.has THEN PInt(1) ELSE PInt(0))
    ELSE Raise("argument of type is not iterable")

\* doc[key]
Subscript(doc, key) ==
    CASE doc.kind = "dict" /\ key \in DOMAIN doc.items -> Ok(doc.items[key])
      [] doc.kind = "dict" -> Raise("KeyError")
      [] doc.kind \in {"list", "str"} -> Raise("indices must be integers")
      [] OTHER -> Raise("object is not subscriptable")

(* ------------------------------ schema --------------------------------- *)
Variants == {"app", "vs"}

\* Variant of Fields that stores humidity as an integer.
Fields_HumidityInt(v) ==
    IF v = "app"
    THEN << <<"temperature", "float">>, <<"humidity", "int">>,
            <<"light", "int">>, <<"co2", "int">> >>
    ELSE << <<"temperature", "float">>, <<"humidity", "int">>,
            <<"luminosity", "int">>, <<"iaq", "int">>,
            <<"tvoc", "int">>, <<"eco2", "int">> >>

\* The dict literal handed to latest_data.update: key and conversion, in order.
Fields(v) ==
    IF v = "app"
    THEN << <<"temperature", "float">>, <<"humidity", "float">>,
            <<"light", "int">>, <<"co2", "int">> >>
    ELSE << <<"temperature", "float">>, <<"humidity", "float">>,
            <<"luminosity", "int">>, <<"iaq", "int">>,
            <<"tvoc", "int">>, <<"eco2", "int">> >>

NFields(v) == Len(Fields(v))
MetricNames(v) == {Fields(v)[i][1] : i \in 1..NFields(v)}
KindOf(v, m) == Fields(v)[CHOOSE i \in 1..NFields(v) : Fields(v)[i][1] = m][2]
Convert(kind, x) == IF kind = "float" THEN PyFloat(x) ELSE PyInt(x)

\* required_keys of handle_sensor_data
required_keys == <<"temperature", "humidity", "light", "co2">>

\* latest_data as the module is imported
InitialData(v) ==
    IF v = "app"
    THEN [temperature |-> PFloat(245), humidity |-> PInt(65), light |-> PInt(750),
          co2 |-> PInt(450), timestamp |-> PTime(0)]
    ELSE [temperature |-> PFloat(245), humidity |-> PInt(65), luminosity |-> PInt(750),
          iaq |-> PInt(150), tvoc |-> PInt(100), eco2 |-> PInt(400),
          timestamp |-> PTime(0)]

\* THRESHOLDS: metric -> (min, max)
THRESHOLDS(v) ==
    IF v = "app"
    THEN [temperature |-> <<15, 30>>, humidity |-> <<30, 70>>,
          light |-> <<300, 1000>>, co2 |-> <<300, 800>>]
    ELSE [temperature |-> <<15, 30>>, humidity |-> <<30, 70>>,
          luminosity |-> <<300, 1000>>, eco2 |-> <<300, 800>>,
          tvoc |-> <<0, 300>>, iaq |-> <<0, 300>>]

\* The keys of THRESHOLDS and of latest_data in the order the dict literals
\* list them (a dict keeps insertion order).
ThresholdKeys(v) ==
    IF v = "app"
    THEN <<"temperature", "humidity", "light", "co2">>
    ELSE <<"temperature", "humidity", "luminosity", "eco2", "tvoc", "iaq">>
LatestDataKeys(v) ==
    IF v = "app"
    THEN <<"temperature", "humidity", "light", "co2", "timestamp">>
    ELSE <<"temperature", "humidity", "luminosity", "iaq", "tvoc", "eco2", "timestamp">>

(* ------------------------------ inputs --------------------------------- *)
\* Two complete readings that differ from each other and from the initial
\* reading in every metric; ReadingB is out of range in every metric and
\* exercises string parsing and truncation.
ReadingA(v) ==
    IF v = "app"
    THEN [temperature |-> PInt(22), humidity |-> PFloat(505), light |-> PInt(500),
          co2 |-> PInt(400)]
    ELSE [temperature |-> PInt(22), humidity |-> PFloat(505), luminosity |-> PInt(500),
          iaq |-> PInt(50), tvoc |-> PInt(20), eco2 |-> PInt(450)]

ReadingB(v) ==
    IF v = "app"
    THEN [temperature |-> PStr("dec", 315), humidity |-> PInt(71),
          light |-> PFloat(2507), co2 |-> PStr("int", 9000)]
    ELSE [temperature |-> PStr("dec", 315), humidity |-> PInt(71),
          luminosity |-> PFloat(2507), iaq |-> PStr("int", 3010),
          tvoc |-> PInt(301), eco2 |-> PStr("int", 9000)]

FirstKey(v) == Fields(v)[1][1]
LastKey(v) == Fields(v)[NFields(v)][1]
MidKey(v) == Fields(v)[3][1]

\* Decoded documents a client or publisher can send.  The second one carries
\* two keys the handlers never ask for, one of them a timestamp string.
Docs(v) ==
    { Obj(ReadingA(v)),
      Obj(Put(Put(ReadingB(v), "extra", PInt(1)), "timestamp", PStr("iso", 0))),
      Obj(Put(ReadingA(v), FirstKey(v), PNone)),
      Obj(Put(ReadingB(v), LastKey(v), PStr("dec", 125))),
      Obj(Restrict(ReadingB(v), MetricNames(v) \ {MidKey(v)})),
      Obj(EmptyDict),
      Doc("none", {}, EmptyDict) }

\* A message body: enc says whether it decodes as UTF-8 and parses as JSON.
Body(enc, doc) == [enc |-> enc, doc |-> doc]
Bodies(v) ==
    {Body("json", d) : d \in Docs(v)} \cup {Body("notjson", NoDoc)}
      \cup (IF v = "vs" THEN {Body("badutf8", NoDoc)} ELSE {})

(* ------------------------------- state --------------------------------- *)
ReqThreads == {"r1", "r2"}   \* Flask request threads running handle_sensor_data
MqttThread == "mq"           \* paho network loop thread running on_message
Pollers == {"p1", "p2"}      \* Dash callback threads running update_metrics
Writers == ReqThreads \cup {MqttThread}
Threads == Writers \cup Pollers
Free == "free"

VARIABLES
    variant,      \* which program runs: "app" (src/app.py) or "vs" (src/vs/app.py)
    latest_data,  \* the shared dict
    data_lock,    \* Free, or the thread that acquired data_lock
    clock,        \* what datetime.now() returns
    pc,           \* position of each thread in its function
    sensor_data,  \* per writer: request.json (app) / payload (vs)
    new_data,     \* per writer: the dict literal under construction
    exc,          \* per writer: str(e) of the exception being handled
    snap,         \* per poller: temp, humidity, ... read so far
    alerts,       \* per poller: the alerts list
    lastDoc,      \* history: document of the latest update
    dropped,      \* history: a message was dropped since the last one that was applied
    updated,      \* history: an update was applied while a poll held its snapshot, and
                  \* some poll has held one ever since
    printed       \* stdout: the reading on_message logged last

vars == <<variant, latest_data, data_lock, clock, pc, sensor_data, new_data, exc,
          snap, alerts, lastDoc, dropped, updated, printed>>

Metrics(d) == Restrict(d, DOMAIN d \ {"timestamp"})

Init ==
    /\ variant \in Variants
    /\ latest_data = InitialData(variant)
    /\ data_lock = Free
    /\ clock = 0
    /\ pc = [t \in Threads |-> "idle"]
    /\ sensor_data = [t \in Writers |-> NoDoc]
    /\ new_data = [t \in Writers |-> EmptyDict]
    /\ exc = [t \in Writers |-> ""]
    /\ snap = [p \in Pollers |-> EmptyDict]
    /\ alerts = [p \in Pollers |-> << >>]
    /\ lastDoc = NoDoc
    /\ dropped = FALSE
    /\ updated = FALSE
    /\ printed = EmptyDict

\* time passes
Tick ==
    /\ clock < MaxClock
    /\ clock' = clock + 1
    /\ UNCHANGED <<variant, latest_data, data_lock, pc, sensor_data, new_data, exc,
                   snap, alerts, lastDoc, dropped, updated, printed>>

(* -------------------- steps shared by both handlers -------------------- *)
\* Variant of Acquire that enters the with block without waiting.
Acquire_NoWait(t) ==
    /\ pc[t] = "lock"
    /\ data_lock' = t
    /\ pc' = [pc EXCEPT ![t] = "build"]
    /\ new_data' = [new_data EXCEPT ![t] = EmptyDict]
    /\ UNCHANGED <<variant, latest_data, clock, sensor_data, exc, snap, alerts,
                   lastDoc, dropped, updated, printed>>

\* with data_lock: (enter)
Acquire(t) ==
    /\ pc[t] = "lock"
    /\ data_lock = Free
    /\ data_lock' = t
    /\ pc' = [pc EXCEPT ![t] = "build"]
    /\ new_data' = [new_data EXCEPT ![t] = EmptyDict]
    /\ UNCHANGED <<variant, latest_data, clock, sensor_data, exc, snap, alerts,
                   lastDoc, dropped, updated, printed>>

\* Variant of BuildField that stores each converted value in latest_data at once.
BuildField_InPlace(t) ==
    /\ pc[t] = "build"
    /\ Cardinality(DOMAIN new_data[t]) < NFields(variant)
    /\ LET f == Fields(variant)[Cardinality(DOMAIN new_data[t]) + 1]
           got == Subscript(sensor_data[t], f[1])
           res == IF got.ok THEN Convert(f[2], got.val) ELSE got
       IN IF res.ok
          THEN /\ new_data' = [new_data EXCEPT ![t] = Put(@, f[1], res.val)]
               /\ latest_data' = Put(latest_data, f[1], res.val)
               /\ UNCHANGED <<pc, exc>>
          ELSE /\ exc' = [exc EXCEPT ![t] = res.err]
               /\ pc' = [pc EXCEPT ![t] = "unwind"]
               /\ UNCHANGED <<new_data, latest_data>>
    /\ UNCHANGED <<variant, data_lock, clock, sensor_data, snap, alerts, lastDoc, dropped, updated, printed>>

\* One entry of the dict literal: "key": float(doc['key']) or int(doc['key']).
\* A failing subscript or conversion raises inside the with block.
BuildField(t) ==
    /\ pc[t] = "build"
    /\ Cardinality(DOMAIN new_data[t]) < NFields(variant)
    /\ LET f == Fields(variant)[Cardinality(DOMAIN new_data[t]) + 1]
           got == Subscript(sensor_data[t], f[1])
           res == IF got.ok THEN Convert(f[2], got.val) ELSE got
       IN IF res.ok
          THEN /\ new_data' = [new_data EXCEPT ![t] = Put(@, f[1], res.val)]
               /\ UNCHANGED <<pc, exc>>
          ELSE /\ exc' = [exc EXCEPT ![t] = res.err]
               /\ pc' = [pc EXCEPT ![t] = "unwind"]
               /\ UNCHANGED new_data
    /\ UNCHANGED <<variant, latest_data, data_lock, clock, sensor_data, snap, alerts,
                   lastDoc, dropped, updated, printed>>

\* Variant of Stamp that prefers a timestamp found in the payload.
Stamp_FromPayload(t) ==
    /\ pc[t] = "build"
    /\ Cardinality(DOMAIN new_data[t]) = NFields(variant)
    /\ new_data' = [new_data EXCEPT ![t] =
                        Put(@, "timestamp",
                            IF "timestamp" \in DOMAIN sensor_data[t].items
                            THEN sensor_data[t].items["timestamp"]
                            ELSE PTime(clock))]
    /\ pc' = [pc EXCEPT ![t] = "update"]
    /\ UNCHANGED <<variant, latest_data, data_lock, clock, sensor_data, exc, snap,
                   alerts, lastDoc, dropped, updated, printed>>

\* "timestamp": datetime.now(), the last entry of the dict literal
Stamp(t) ==
    /\ pc[t] = "build"
    /\ Cardinality(DOMAIN new_data[t]) = NFields(variant)
    /\ new_data' = [new_data EXCEPT ![t] = Put(@, "timestamp", PTime(clock))]
    /\ pc' = [pc EXCEPT ![t] = "update"]
    /\ UNCHANGED <<variant, latest_data, data_lock, clock, sensor_data, exc, snap,
                   alerts, lastDoc, dropped, updated, printed>>

\* Variant of ApplyUpdate that forgets the first metric of the new reading.
ApplyUpdate_SkipsFirst(t) ==
    /\ pc[t] = "update"
    /\ latest_data' = DictUpdate(latest_data,
                          Restrict(new_data[t], DOMAIN new_data[t] \ {FirstKey(variant)}))
    /\ lastDoc' = sensor_data[t]
    /\ updated' = \E p \in Pollers : pc[p] = "ret"
    /\ pc' = [pc EXCEPT ![t] = "unlock"]
    /\ UNCHANGED <<variant, data_lock, clock, sensor_data, new_data, exc, snap, alerts,
                   dropped, printed>>

\* Variant of ApplyUpdate that also stores every key of the payload.
ApplyUpdate_WholePayload(t) ==
    /\ pc[t] = "update"
    /\ latest_data' = DictUpdate(latest_data, DictUpdate(sensor_data[t].items, new_data[t]))
    /\ lastDoc' = sensor_data[t]
    /\ updated' = \E p \in Pollers : pc[p] = "ret"
    /\ pc' = [pc EXCEPT ![t] = "unlock"]
    /\ UNCHANGED <<variant, data_lock, clock, sensor_data, new_data, exc, snap, alerts,
                   dropped, printed>>

\* latest_data.update({...})
ApplyUpdate(t) ==
    /\ pc[t] = "update"
    /\ latest_data' = DictUpdate(latest_data, new_data[t])
    /\ lastDoc' = sensor_data[t]
    /\ updated' = \E p \in Pollers : pc[p] = "ret"
    /\ pc' = [pc EXCEPT ![t] = "unlock"]
    /\ UNCHANGED <<variant, data_lock, clock, sensor_data, new_data, exc, snap, alerts,
                   dropped, printed>>

\* Variant of Release that leaves the with block without giving up the lock.
Release_KeepsLock(t) ==
    /\ pc[t] = "unlock"
    /\ pc' = [pc EXCEPT ![t] = "ok"]
    /\ UNCHANGED <<variant, latest_data, data_lock, clock, sensor_data, new_data, exc, snap,
                   alerts, lastDoc, dropped, updated, printed>>

\* leaving the with block normally
Release(t) ==
    /\ pc[t] = "unlock"
    /\ data_lock' = Free
    /\ pc' = [pc EXCEPT ![t] = "ok"]
    /\ UNCHANGED <<variant, latest_data, clock, sensor_data, new_data, exc, snap,
                   alerts, lastDoc, dropped, updated, printed>>

\* Variant of Unwind that answers a failed conversion like a missing key.
Unwind_AsClientError(t) ==
    /\ pc[t] = "unwind"
    /\ data_lock' = Free
    /\ pc' = [pc EXCEPT ![t] = "ret400"]
    /\ UNCHANGED <<variant, latest_data, clock, sensor_data, new_data, exc, snap,
                   alerts, lastDoc, dropped, updated, printed>>

\* Variant of Unwind that stores what had been converted before the failure.
Unwind_AppliesPartial(t) ==
    /\ pc[t] = "unwind"
    /\ data_lock' = Free
    /\ latest_data' = DictUpdate(latest_data, new_data[t])
    /\ pc' = [pc EXCEPT ![t] = "err"]
    /\ UNCHANGED <<variant, clock, sensor_data, new_data, exc, snap, alerts, lastDoc,
                   dropped, updated, printed>>

\* Variant of Unwind that keeps the lock (acquire/release without a with block).
Unwind_KeepsLock(t) ==
    /\ pc[t] = "unwind"
    /\ pc' = [pc EXCEPT ![t] = "err"]
    /\ UNCHANGED <<variant, latest_data, data_lock, clock, sensor_data, new_data, exc,
                   snap, alerts, lastDoc, dropped, updated, printed>>

\* leaving the with block by an exception: the lock is released, then the
\* except clause runs
Unwind(t) ==
    /\ pc[t] = "unwind"
    /\ data_lock' = Free
    /\ pc' = [pc EXCEPT ![t] = "err"]
    /\ UNCHANGED <<variant, latest_data, clock, sensor_data, new_data, exc, snap,
                   alerts, lastDoc, dropped, updated, printed>>

\* the handler returns; its locals are gone
Finish(t) ==
    /\ pc' = [pc EXCEPT ![t] = "idle"]
    /\ sensor_data' = [sensor_data EXCEPT ![t] = NoDoc]
    /\ new_data' = [new_data EXCEPT ![t] = EmptyDict]
    /\ exc' = [exc EXCEPT ![t] = ""]
    /\ UNCHANGED <<variant, latest_data, data_lock, clock, snap, alerts, lastDoc, updated>>

(* ------------------- src/app.py: handle_sensor_data -------------------- *)
\* all(key in sensor_data for key in required_keys): a document that is not a
\* container raises on the first test.
AllRequired(doc) ==
    IF ~Contains(doc, required_keys[1]).ok
    THEN Raise(Contains(doc, required_keys[1]).err)
    ELSE Ok(IF \A i \in 1..Len(required_keys) :
                 Contains(doc, required_keys[i]).val = PInt(1)
            THEN PInt(1) ELSE PInt(0))

\* Variant of HandleRequest that goes on to the update whatever keys are there.
HandleRequest_NoKeyCheck(r, body) ==
    /\ variant = "app"
    /\ pc[r] = "idle"
    /\ IF body.enc # "json"
       THEN /\ exc' = [exc EXCEPT ![r] = "400 Bad Request"]
            /\ pc' = [pc EXCEPT ![r] = "err"]
            /\ UNCHANGED sensor_data
       ELSE /\ sensor_data' = [sensor_data EXCEPT ![r] = body.doc]
            /\ pc' = [pc EXCEPT ![r] = "lock"]
            /\ UNCHANGED exc
    /\ UNCHANGED <<variant, latest_data, data_lock, clock, new_data, snap, alerts,
                   lastDoc, dropped, updated, printed>>

\* POST /api/sensors arrives: sensor_data = request.json, then the test of
\* required_keys. Both touch only the request and the thread's locals.
HandleRequest(r, body) ==
    /\ variant = "app"
    /\ pc[r] = "idle"
    /\ IF body.enc # "json"
       THEN /\ exc' = [exc EXCEPT ![r] = "400 Bad Request"]
            /\ pc' = [pc EXCEPT ![r] = "err"]
            /\ UNCHANGED sensor_data
       ELSE LET res == AllRequired(body.doc)
            IN /\ sensor_data' = [sensor_data EXCEPT ![r] = body.doc]
               /\ exc' = [exc EXCEPT ![r] = res.err]
               /\ pc' = [pc EXCEPT ![r] =
                            IF ~res.ok THEN "err"
                            ELSE IF res.val = PInt(1) THEN "lock" ELSE "ret400"]
    /\ UNCHANGED <<variant, latest_data, data_lock, clock, new_data, snap, alerts,
                   lastDoc, dropped, updated, printed>>

\* return jsonify({"error": "Incomplete data"}), 400
Return400(r) == variant = "app" /\ pc[r] = "ret400" /\ Finish(r) /\ UNCHANGED <<dropped, printed>>
\* return jsonify({"status": "success"}), 200
Return200(r) == variant = "app" /\ pc[r] = "ok" /\ Finish(r) /\ UNCHANGED <<dropped, printed>>
\* return jsonify({"error": str(e)}), 500
Return500(r) == variant = "app" /\ pc[r] = "err" /\ Finish(r) /\ UNCHANGED <<dropped, printed>>

\* The response a request thread is about to send.
Response(r) ==
    CASE pc[r] = "ret400" -> [status |-> 400, error |-> "Incomplete data"]
      [] pc[r] = "ok" -> [status |-> 200, error |-> ""]
      [] pc[r] = "err" -> [status |-> 500, error |-> exc[r]]
      [] OTHER -> [status |-> 0, error |-> ""]

(* ---------------------- src/vs/app.py: on_message ---------------------- *)
\* A message arrives on the topic: payload = json.loads(msg.payload.decode())
OnMessage(body) ==
    /\ variant = "vs"
    /\ pc[MqttThread] = "idle"
    /\ IF body.enc = "json"
       THEN /\ sensor_data' = [sensor_data EXCEPT ![MqttThread] = body.doc]
            /\ pc' = [pc EXCEPT ![MqttThread] = "lock"]
            /\ UNCHANGED exc
       ELSE /\ exc' = [exc EXCEPT ![MqttThread] =
                          IF body.enc = "badutf8" THEN "UnicodeDecodeError"
                          ELSE "JSONDecodeError"]
            /\ pc' = [pc EXCEPT ![MqttThread] = "err"]
            /\ UNCHANGED sensor_data
    /\ UNCHANGED <<variant, latest_data, data_lock, clock, new_data, snap, alerts,
                   lastDoc, dropped, updated, printed>>

\* print(f"Received and updated: {latest_data}"), then on_message returns
PrintUpdated ==
    /\ variant = "vs"
    /\ pc[MqttThread] = "ok"
    /\ printed' = latest_data
    /\ Finish(MqttThread)
    /\ dropped' = FALSE
\* print(f"Error parsing MQTT message: {e}"), then on_message returns
PrintError ==
    /\ variant = "vs"
    /\ pc[MqttThread] = "err"
    /\ Finish(MqttThread)
    /\ dropped' = TRUE
    /\ UNCHANGED printed

(* --------------------------- update_metrics ---------------------------- *)
\* The reads inside "with data_lock", in order.
ReadOrder(v) ==
    IF v = "app"
    THEN <<"temperature", "humidity", "light", "co2">>
    ELSE <<"temperature", "humidity", "luminosity", "iaq", "tvoc", "eco2">>

\* Variant of Checks that tests the last two metrics in the opposite order.
Checks_LastTwoSwapped(v) ==
    IF v = "app"
    THEN << <<"temperature", "Temperature out of range", ".1f", "C">>,
            <<"humidity", "Humidity out of range", ".1f", "%">>,
            <<"co2", "CO2 level out of range", "", " ppm">>,
            <<"light", "Light out of range", "", " lux">> >>
    ELSE << <<"temperature", "Temperature out of range", ".1f", "C">>,
            <<"humidity", "Humidity out of range", ".1f", "%">>,
            <<"luminosity", "Luminosity out of range", "", " lux">>,
            <<"iaq", "IAQ level out of range", "", "">>,
            <<"eco2", "eCO2 level out of range", "", " ppm">>,
            <<"tvoc", "TVOC level out of range", "", " ppb">> >>

\* The if-statements that follow: metric, alert label, format, unit, in order.
Checks(v) ==
    IF v = "app"
    THEN << <<"temperature", "Temperature out of range", ".1f", "C">>,
            <<"humidity", "Humidity out of range", ".1f", "%">>,
            <<"light", "Light out of range", "", " lux">>,
            <<"co2", "CO2 level out of range", "", " ppm">> >>
    ELSE << <<"temperature", "Temperature out of range", ".1f", "C">>,
            <<"humidity", "Humidity out of range", ".1f", "%">>,
            <<"luminosity", "Luminosity out of range", "", " lux">>,
            <<"iaq", "IAQ level out of range", "", "">>,
            <<"tvoc", "TVOC level out of range", "", " ppb">>,
            <<"eco2", "eCO2 level out of range", "", " ppm">> >>

\* Variant of InRange with strict comparisons.
InRange_Strict(lo, x, hi) == ~IsNaN(x) /\ 10 * lo < x.t /\ x.t < 10 * hi

\* lo <= x <= hi as Python chains it; every comparison with NaN is False.
InRange(lo, x, hi) == ~IsNaN(x) /\ 10 * lo <= x.t /\ x.t <= 10 * hi

\* f"{x:.1f}" and f"{x}": the text of a number
Format(fmt, x) ==
    IF fmt = ".1f"
    THEN (IF IsNaN(x) THEN <<"nan">> ELSE <<x.t \div 10, ".", x.t % 10>>)
    ELSE (IF x.tag = "int" THEN <<x.t \div 10>>
          ELSE IF IsNaN(x) THEN <<"nan">> ELSE <<x.t \div 10, ".", x.t % 10>>)

Alert(c, x) == [metric |-> c[1], message |-> <<c[2]>> \o Format(c[3], x) \o <<c[4]>>]

\* alerts after the first n if-statements
RECURSIVE AlertsUpTo(_, _, _)
AlertsUpTo(v, s, n) ==
    IF n = 0 THEN << >>
    ELSE LET c == Checks(v)[n]
             before == AlertsUpTo(v, s, n - 1)
         IN IF ~InRange(THRESHOLDS(v)[c[1]][1], s[c[1]], THRESHOLDS(v)[c[1]][2])
            THEN Append(before, Alert(c, s[c[1]]))
            ELSE before

Evaluate(v, s) == AlertsUpTo(v, s, Len(Checks(v)))

\* Variant of Join that puts nothing between the alerts.
RECURSIVE Join_NoSeparator(_)
Join_NoSeparator(as) ==
    IF as = << >> THEN << >>
    ELSE as[1].message \o Join_NoSeparator(Tail(as))

\* ' | '.join(alerts) if alerts else ''
RECURSIVE Join(_)
Join(as) ==
    IF as = << >> THEN << >>
    ELSE IF Len(as) = 1 THEN as[1].message
    ELSE as[1].message \o <<" | ">> \o Join(Tail(as))

\* the Interval component fires the callback
StartPoll(p) ==
    /\ pc[p] = "idle"
    /\ pc' = [pc EXCEPT ![p] = "lock"]
    /\ UNCHANGED <<variant, latest_data, data_lock, clock, sensor_data, new_data, exc,
                   snap, alerts, lastDoc, dropped, updated, printed>>

\* Variant of PollAcquire that does not wait for the lock.
PollAcquire_NoWait(p) ==
    /\ pc[p] = "lock"
    /\ pc' = [pc EXCEPT ![p] = "read"]
    /\ UNCHANGED <<variant, latest_data, data_lock, clock, sensor_data, new_data, exc,
                   snap, alerts, lastDoc, dropped, updated, printed>>

\* Variant of PollAcquire that waits for writers only, as a shared lock would.
PollAcquire_SharedRead(p) ==
    /\ pc[p] = "lock"
    /\ data_lock \notin Writers
    /\ data_lock' = p
    /\ pc' = [pc EXCEPT ![p] = "read"]
    /\ UNCHANGED <<variant, latest_data, clock, sensor_data, new_data, exc, snap, alerts,
                   lastDoc, dropped, updated, printed>>

\* with data_lock: (enter)
PollAcquire(p) ==
    /\ pc[p] = "lock"
    /\ data_lock = Free
    /\ data_lock' = p
    /\ pc' = [pc EXCEPT ![p] = "read"]
    /\ UNCHANGED <<variant, latest_data, clock, sensor_data, new_data, exc, snap, alerts,
                   lastDoc, dropped, updated, printed>>

\* Variant of ReadField that reads the values the module started with.
ReadField_Stale(p) ==
    /\ pc[p] = "read"
    /\ Cardinality(DOMAIN snap[p]) < Len(ReadOrder(variant))
    /\ LET k == ReadOrder(variant)[Cardinality(DOMAIN snap[p]) + 1]
       IN snap' = [snap EXCEPT ![p] = Put(@, k, InitialData(variant)[k])]
    /\ UNCHANGED <<variant, latest_data, data_lock, clock, pc, sensor_data, new_data, exc,
                   alerts, lastDoc, dropped, updated, printed>>

\* temp = latest_data['temperature'] and the following reads, one per step
ReadField(p) ==
    /\ pc[p] = "read"
    /\ Cardinality(DOMAIN snap[p]) < Len(ReadOrder(variant))
    /\ LET k == ReadOrder(variant)[Cardinality(DOMAIN snap[p]) + 1]
       IN snap' = [snap EXCEPT ![p] = Put(@, k, latest_data[k])]
    /\ UNCHANGED <<variant, latest_data, data_lock, clock, pc, sensor_data, new_data, exc,
                   alerts, lastDoc, dropped, updated, printed>>

\* Variant of PollRelease that records the time of the read in the store.
PollRelease_StampsRead(p) ==
    /\ pc[p] = "read"
    /\ Cardinality(DOMAIN snap[p]) = Len(ReadOrder(variant))
    /\ data_lock' = Free
    /\ latest_data' = Put(latest_data, "timestamp", PTime(clock))
    /\ alerts' = [alerts EXCEPT ![p] = Evaluate(variant, snap[p])]
    /\ pc' = [pc EXCEPT ![p] = "ret"]
    /\ UNCHANGED <<variant, clock, sensor_data, new_data, exc, snap,
                   lastDoc, dropped, updated, printed>>

\* leaving the with block; then alerts = [] and the threshold checks, which
\* touch only the callback's locals
PollRelease(p) ==
    /\ pc[p] = "read"
    /\ Cardinality(DOMAIN snap[p]) = Len(ReadOrder(variant))
    /\ data_lock' = Free
    /\ alerts' = [alerts EXCEPT ![p] = Evaluate(variant, snap[p])]
    /\ pc' = [pc EXCEPT ![p] = "ret"]
    /\ UNCHANGED <<variant, latest_data, clock, sensor_data, new_data, exc, snap,
                   lastDoc, dropped, updated, printed>>

\* What the callback returns: the metric texts and alert_message.
Output(p) ==
    [texts |-> [i \in 1..Len(Checks(variant)) |->
                   Format(Checks(variant)[i][3], snap[p][Checks(variant)[i][1]])
                     \o <<Checks(variant)[i][4]>>],
     alert_message |-> Join(alerts[p])]

\* return (...)
ReturnPoll(p) ==
    /\ pc[p] = "ret"
    /\ pc' = [pc EXCEPT ![p] = "idle"]
    /\ snap' = [snap EXCEPT ![p] = EmptyDict]
    /\ alerts' = [alerts EXCEPT ![p] = << >>]
    /\ updated' = (updated /\ \E q \in Pollers \ {p} : pc[q] = "ret")
    /\ UNCHANGED <<variant, latest_data, data_lock, clock, sensor_data, new_data, exc,
                   lastDoc, dropped, printed>>

(* --------------------------- specification ----------------------------- *)
Next ==
    \/ Tick
    \/ \E r \in ReqThreads : \E b \in Bodies(variant) : HandleRequest(r, b)
    \/ \E r \in ReqThreads : Return400(r)
    \/ \E r \in ReqThreads : Return200(r)
    \/ \E r \in ReqThreads : Return500(r)
    \/ \E b \in Bodies(variant) : OnMessage(b)
    \/ PrintUpdated
    \/ PrintError
    \/ \E t \in Writers : Acquire(t)
    \/ \E t \in Writers : BuildField(t)
    \/ \E t \in Writers : Stamp(t)
    \/ \E t \in Writers : ApplyUpdate(t)
    \/ \E t \in Writers : Release(t)
    \/ \E t \in Writers : Unwind(t)
    \/ \E p \in Pollers : StartPoll(p)
    \/ \E p \in Pollers : PollAcquire(p)
    \/ \E p \in Pollers : ReadField(p)
    \/ \E p \in Pollers : PollRelease(p)
    \/ \E p \in Pollers : ReturnPoll(p)

Spec == Init /\ [][Next]_vars

\* The steps of a handler or a poll once it has started.
WriterStep(t) ==
    \/ Acquire(t) \/ BuildField(t) \/ Stamp(t) \/ ApplyUpdate(t) \/ Release(t) \/ Unwind(t)
    \/ t \in ReqThreads /\ (Return400(t) \/ Return200(t) \/ Return500(t))
    \/ t = MqttThread /\ (PrintUpdated \/ PrintError)
PollerStep(p) == PollAcquire(p) \/ ReadField(p) \/ PollRelease(p) \/ ReturnPoll(p)
Step(t) == IF t \in Writers THEN WriterStep(t) ELSE PollerStep(t)
Enter(t) == IF t \in Writers THEN Acquire(t) ELSE PollAcquire(t)

\* Fair scheduling: a started thread that can run does run, and a thread that
\* finds the lock free again and again gets it.  Arrivals of requests,
\* messages and polls, and the clock, are not forced.
Fairness == \A t \in Threads : WF_vars(Step(t)) /\ SF_vars(Enter(t))

\* The same program with fewer payloads and a clock that stands still, which
\* is what the threads' progress depends on: a document that is applied, one
\* whose last conversion fails inside the with block, one with a key missing
\* (answered 400 in src/app.py, a KeyError inside the with block in
\* src/vs/app.py), and a body that does not parse.
LiveDocs(v) ==
    { Obj(ReadingA(v)),
      Obj(Put(ReadingB(v), LastKey(v), PStr("dec", 125))),
      Obj(Restrict(ReadingB(v), MetricNames(v) \ {MidKey(v)})) }
LiveBodies(v) == {Body("json", d) : d \in LiveDocs(v)} \cup {Body("notjson", NoDoc)}
NextLive ==
    \/ \E r \in ReqThreads : \E b \in LiveBodies(variant) : HandleRequest(r, b)
    \/ \E r \in ReqThreads : Return400(r)
    \/ \E r \in ReqThreads : Return200(r)
    \/ \E r \in ReqThreads : Return500(r)
    \/ \E b \in LiveBodies(variant) : OnMessage(b)
    \/ PrintUpdated
    \/ PrintError
    \/ \E t \in Writers : Acquire(t)
    \/ \E t \in Writers : BuildField(t)
    \/ \E t \in Writers : Stamp(t)
    \/ \E t \in Writers : ApplyUpdate(t)
    \/ \E t \in Writers : Release(t)
    \/ \E t \in Writers : Unwind(t)
    \/ \E p \in Pollers : StartPoll(p)
    \/ \E p \in Pollers : PollAcquire(p)
    \/ \E p \in Pollers : ReadField(p)
    \/ \E p \in Pollers : PollRelease(p)
    \/ \E p \in Pollers : ReturnPoll(p)
SpecLive == Init /\ [][NextLive]_vars /\ Fairness

(* ------------------ threshold evaluation on its own -------------------- *)
\* Payload values around a range: one below, a tenth below, min, max, a tenth
\* above, one above and, where float() converts, the string "nan".
AroundFloat(lo, hi) ==
    {PInt(lo - 1), PFloat(10 * lo - 1), PInt(lo), PInt(hi), PFloat(10 * hi + 1),
     PInt(hi + 1), PStr("nan", 0)}
AroundInt(lo, hi) == {PInt(lo - 1), PInt(lo), PInt(hi), PInt(hi + 1)}
Around(v, m) ==
    IF KindOf(v, m) = "float"
    THEN AroundFloat(THRESHOLDS(v)[m][1], THRESHOLDS(v)[m][2])
    ELSE AroundInt(THRESHOLDS(v)[m][1], THRESHOLDS(v)[m][2])

EvalDocs(v) ==
    IF v = "app"
    THEN {Obj([temperature |-> a, humidity |-> b, light |-> c, co2 |-> d]) :
             a \in Around(v, "temperature"), b \in Around(v, "humidity"),
             c \in Around(v, "light"), d \in Around(v, "co2")}
    ELSE {Obj([temperature |-> a, humidity |-> b, luminosity |-> c, iaq |-> d,
               tvoc |-> e, eco2 |-> f]) :
             a \in Around(v, "temperature"), b \in Around(v, "humidity"),
             c \in Around(v, "luminosity"), d \in Around(v, "iaq"),
             e \in Around(v, "tvoc"), f \in Around(v, "eco2")}

EvalPoller == "p1"

\* The store after one ingestion of a document of EvalDocs; all threads idle.
InitEval ==
    /\ variant \in Variants
    /\ \E d \in EvalDocs(variant) :
          /\ latest_data =
                DictUpdate(InitialData(variant),
                           Put([m \in MetricNames(variant) |->
                                   Convert(KindOf(variant, m), d.items[m]).val],
                               "timestamp", PTime(0)))
          /\ lastDoc = d
    /\ data_lock = Free
    /\ clock = 0
    /\ pc = [t \in Threads |-> "idle"]
    /\ sensor_data = [t \in Writers |-> NoDoc]
    /\ new_data = [t \in Writers |-> EmptyDict]
    /\ exc = [t \in Writers |-> ""]
    /\ snap = [p \in Pollers |-> EmptyDict]
    /\ alerts = [p \in Pollers |-> << >>]
    /\ dropped = FALSE
    /\ updated = FALSE
    /\ printed = EmptyDict

NextEval ==
    \/ StartPoll(EvalPoller)
    \/ PollAcquire(EvalPoller)
    \/ ReadField(EvalPoller)
    \/ PollRelease(EvalPoller)
    \/ ReturnPoll(EvalPoller)

SpecEval == InitEval /\ [][NextEval]_vars

(* ------------------------- what the claims use ------------------------- *)
\* A document every entry of the dict literal can be built from.
Valid(v, d) ==
    /\ d.kind = "dict"
    /\ \A m \in MetricNames(v) : m \in DOMAIN d.items /\ Convert(KindOf(v, m), d.items[m]).ok

\* Its values converted to the declared kinds.
Converted(v, d) == [m \in MetricNames(v) |-> Convert(KindOf(v, m), d.items[m]).val]

\* The poller holds all its reads / has just finished them, lock still held.
HasSnapshot(p) == pc[p] \in {"read", "ret"} /\ DOMAIN snap[p] = MetricNames(variant)
CopiedOut(p) == pc[p] = "read" /\ DOMAIN snap[p] = MetricNames(variant)

\* C1: whatever updates and polls interleave, the values one poll holds are the
\* initial reading as a whole or the reading of one single update as a whole.
C1_NoTornRead ==
    \A p \in Pollers :
        HasSnapshot(p) =>
            \/ snap[p] = Metrics(InitialData(variant))
            \/ \E d \in Docs(variant) : Valid(variant, d) /\ snap[p] = Converted(variant, d)

\* A poll holds one update's reading while the store already holds another's
\* and a further update is under way.
C1_Witness ==
    \E p \in Pollers, w \in Writers :
        /\ pc[p] = "ret"
        /\ snap[p] # Metrics(latest_data)
        /\ snap[p] # Metrics(InitialData(variant))
        /\ lastDoc # NoDoc
        /\ pc[w] \in {"lock", "build", "update"}

\* C2: once two concurrent requests have both applied their updates, the live
\* reading is the whole reading of one of them, the one applied last.
C2_ConcurrentWriters ==
    \A r1 \in ReqThreads, r2 \in ReqThreads :
        (r1 # r2 /\ pc[r1] = "ok" /\ pc[r2] = "ok") =>
            /\ lastDoc \in {sensor_data[r1], sensor_data[r2]}
            /\ Metrics(latest_data) = Converted(variant, lastDoc)
            /\ Metrics(latest_data) \in {Converted(variant, sensor_data[r1]),
                                         Converted(variant, sensor_data[r2])}

\* Two requests in flight at once, with readings that differ in every metric,
\* have both left the with block.
C2_Witness ==
    \E r1 \in ReqThreads, r2 \in ReqThreads :
        /\ pc[r1] = "ok" /\ pc[r2] = "ok"
        /\ \A m \in MetricNames(variant) :
              Converted(variant, sensor_data[r1])[m] # Converted(variant, sensor_data[r2])[m]
        /\ Metrics(latest_data) = Converted(variant, sensor_data[r1])

\* C3: when a poll has copied the reading out it holds exactly the live
\* reading, which is that of the update applied last, and no update is between
\* building its values and leaving the with block.
C3_Freshness ==
    \A p \in Pollers :
        CopiedOut(p) =>
            /\ snap[p] = Metrics(latest_data)
            /\ lastDoc # NoDoc => snap[p] = Converted(variant, lastDoc)
            /\ \A w \in Writers : pc[w] \notin {"build", "update", "unlock", "unwind"}

\* A poll copies out the second update's reading while a third update waits.
C3_Witness ==
    \E p \in Pollers, w \in Writers :
        /\ CopiedOut(p)
        /\ lastDoc # NoDoc
        /\ snap[p] = Converted(variant, lastDoc)
        /\ pc[w] = "lock"
        /\ Valid(variant, sensor_data[w])
        /\ Converted(variant, sensor_data[w]) # snap[p]

\* The readings ReadingA and ReadingB denote, written out by hand.
ExpectedA(v) ==
    IF v = "app"
    THEN [temperature |-> PFloat(220), humidity |-> PFloat(505), light |-> PInt(500),
          co2 |-> PInt(400)]
    ELSE [temperature |-> PFloat(220), humidity |-> PFloat(505), luminosity |-> PInt(500),
          iaq |-> PInt(50), tvoc |-> PInt(20), eco2 |-> PInt(450)]
ExpectedB(v) ==
    IF v = "app"
    THEN [temperature |-> PFloat(315), humidity |-> PFloat(710), light |-> PInt(250),
          co2 |-> PInt(900)]
    ELSE [temperature |-> PFloat(315), humidity |-> PFloat(710), luminosity |-> PInt(250),
          iaq |-> PInt(301), tvoc |-> PInt(301), eco2 |-> PInt(900)]

\* C4: a read that follows a successful ingest with no update in between gives
\* the payload's values converted to the declared kinds: floats for
\* temperature and humidity, integers for the rest.
C4_RoundTrip ==
    \A p \in Pollers :
        (CopiedOut(p) /\ lastDoc # NoDoc) =>
            /\ \A m \in MetricNames(variant) :
                  /\ snap[p][m].tag = (IF m \in {"temperature", "humidity"} THEN "float" ELSE "int")
                  /\ snap[p][m] = (IF m \in {"temperature", "humidity"}
                                   THEN PyFloat(lastDoc.items[m]).val
                                   ELSE PyInt(lastDoc.items[m]).val)
            /\ Restrict(lastDoc.items, MetricNames(variant)) = ReadingA(variant)
                  => snap[p] = ExpectedA(variant)
            /\ Restrict(lastDoc.items, MetricNames(variant)) = ReadingB(variant)
                  => snap[p] = ExpectedB(variant)

\* A poll has read back the reading whose values needed parsing and truncation.
C4_Witness ==
    \E p \in Pollers :
        /\ CopiedOut(p)
        /\ lastDoc # NoDoc
        /\ Restrict(lastDoc.items, MetricNames(variant)) = ReadingB(variant)
        /\ snap[p] = ExpectedB(variant)

\* The thread takes a step.
Moves(t) == pc'[t] # pc[t] \/ new_data'[t] # new_data[t]

\* C5: a request mutates latest_data in exactly one step, the update of a
\* fully converted payload, which every successful request passes once; a
\* request that ends in an error never passes it, so it changes neither a
\* metric nor the timestamp.
C5_AllOrNothing ==
    [][variant = "app" =>
        \A r \in ReqThreads :
            Moves(r) =>
                /\ IF pc[r] = "update"
                   THEN /\ Valid(variant, sensor_data[r])
                        /\ pc'[r] = "unlock"
                        /\ latest_data' = DictUpdate(latest_data, new_data[r])
                        /\ Metrics(latest_data') = Converted(variant, sensor_data[r])
                   ELSE latest_data' = latest_data
                /\ pc'[r] = "ok" => pc[r] = "unlock"
                /\ pc'[r] = "unlock" => pc[r] = "update"
                /\ pc'[r] = "update" => pc[r] = "build" /\ Valid(variant, sensor_data[r])
                /\ pc'[r] = "unwind" => pc[r] = "build" /\ ~Valid(variant, sensor_data[r])
                /\ pc'[r] = "err" => pc[r] \in {"idle", "unwind"}
                /\ pc'[r] = "ret400" => pc[r] = "idle"]_vars

\* A request failed on its last value after the earlier ones had converted,
\* and the live reading is still the initial one.
C5_Witness ==
    \E r \in ReqThreads :
        /\ pc[r] = "err"
        /\ Cardinality(DOMAIN new_data[r]) = NFields(variant) - 1
        /\ exc[r] # ""
        /\ latest_data = InitialData(variant)

\* The document names every required metric.
HasAllNames(d) ==
    d.kind = "dict" /\ \A i \in 1..Len(required_keys) : required_keys[i] \in DOMAIN d.items

\* C6: a request whose JSON payload lacks a value for some metric is answered
\* 400 {"error": "Incomplete data"}, never 500 or 200.
C6_IncompleteIs400 ==
    \A r \in ReqThreads :
        (/\ variant = "app"
         /\ pc[r] \in {"ret400", "ok", "err"}
         /\ sensor_data[r] # NoDoc
         /\ ~HasAllNames(sensor_data[r]))
            => Response(r) = [status |-> 400, error |-> "Incomplete data"]

\* The error of the first entry of the dict literal that cannot be built.
FirstFailure(v, d) ==
    LET bad == {i \in 1..NFields(v) : ~Convert(Fields(v)[i][2], d.items[Fields(v)[i][1]]).ok}
        i == CHOOSE j \in bad : \A k \in bad : j <= k
    IN Convert(Fields(v)[i][2], d.items[Fields(v)[i][1]]).err

\* C7: a payload with every metric name gets 200 when all values convert and
\* otherwise 500 with the text of the failed conversion.
C7_ConversionFailureIs500 ==
    \A r \in ReqThreads :
        (/\ variant = "app"
         /\ pc[r] \in {"ret400", "ok", "err"}
         /\ HasAllNames(sensor_data[r]))
            => IF Valid(variant, sensor_data[r])
               THEN Response(r) = [status |-> 200, error |-> ""]
               ELSE Response(r) = [status |-> 500,
                                   error |-> FirstFailure(variant, sensor_data[r])]

\* A complete payload whose last value does not convert is about to get 500.
C7_Witness ==
    \E r \in ReqThreads :
        /\ pc[r] = "err"
        /\ HasAllNames(sensor_data[r])
        /\ Convert("float", sensor_data[r].items[FirstKey(variant)]).ok
        /\ ~Valid(variant, sensor_data[r])
        /\ Response(r).status = 500

\* The message on_message is handling can be applied.
WellFormed == pc[MqttThread] # "idle" /\ Valid(variant, sensor_data[MqttThread])

\* C8: while on_message handles a message that does not decode, is no object,
\* lacks a metric or has an unconvertible value, no step changes a metric or
\* the timestamp, and from its except clause on_message returns.
C8_MalformedDropped ==
    [][variant = "vs" =>
        /\ ~WellFormed => latest_data' = latest_data
        /\ pc[MqttThread] \in {"unwind", "err"} =>
              pc'[MqttThread] \in {"unwind", "err", "idle"}
        /\ (pc[MqttThread] = "idle" /\ ~WellFormed') =>
              pc'[MqttThread] \in {"idle", "lock", "err"}
        /\ (pc[MqttThread] = "lock" /\ ~WellFormed) => pc'[MqttThread] \in {"lock", "build"}
        /\ (pc[MqttThread] = "build" /\ ~WellFormed) =>
              pc'[MqttThread] \in {"build", "unwind"}]_vars

\* A message failed after some of its values had converted; the reading that
\* an earlier message stored is untouched.
C8_Witness ==
    /\ variant = "vs"
    /\ pc[MqttThread] = "err"
    /\ DOMAIN new_data[MqttThread] # {}
    /\ lastDoc # NoDoc
    /\ Metrics(latest_data) = Converted(variant, lastDoc)

\* C9: dropped messages leave nothing behind: the lock is not left held, the
\* thread takes the next message, and a well-formed message is applied as a
\* whole, the store being the initial dict updated with its converted values.
C9_SurvivesMalformed ==
    variant = "vs" =>
        /\ pc[MqttThread] \in {"idle", "lock"} => data_lock # MqttThread
        /\ pc[MqttThread] = "idle" => \A b \in Bodies(variant) : ENABLED OnMessage(b)
        /\ WellFormed => pc[MqttThread] \in {"lock", "build", "update", "unlock", "ok"}
        /\ pc[MqttThread] \in {"unlock", "ok"} =>
              /\ WellFormed
              /\ latest_data = DictUpdate(InitialData(variant), new_data[MqttThread])
              /\ Metrics(latest_data) = Converted(variant, sensor_data[MqttThread])

\* After a dropped message a well-formed one has been applied.
C9_Witness ==
    /\ variant = "vs"
    /\ dropped
    /\ pc[MqttThread] = "ok"
    /\ Metrics(latest_data) = ExpectedB(variant)

\* Number of alerts a finished poll holds for a metric.
AlertCount(p, m) == Cardinality({i \in 1..Len(alerts[p]) : alerts[p][i].metric = m})
Below(x, lo) == ~IsNaN(x) /\ x.t < 10 * lo
Above(x, hi) == ~IsNaN(x) /\ x.t > 10 * hi

\* C10 as stated: a metric is alerted iff its value is strictly below min or
\* strictly above max.
C10_AlertIffOutside ==
    \A p \in Pollers :
        pc[p] = "ret" =>
            \A m \in MetricNames(variant) :
                AlertCount(p, m) >= 1 <=>
                    \/ Below(snap[p][m], THRESHOLDS(variant)[m][1])
                    \/ Above(snap[p][m], THRESHOLDS(variant)[m][2])

\* C10 amended: a number is alerted, once, iff it is strictly below min or
\* strictly above max; min and max themselves give no alert, one unit outside
\* gives exactly one; NaN, neither below nor above, gives one alert too.
C10_BoundaryLaw ==
    \A p \in Pollers :
        pc[p] = "ret" =>
            /\ \A m \in MetricNames(variant) :
                  LET x == snap[p][m]
                      lo == THRESHOLDS(variant)[m][1]
                      hi == THRESHOLDS(variant)[m][2]
                  IN /\ AlertCount(p, m) =
                           (IF IsNaN(x) \/ Below(x, lo) \/ Above(x, hi) THEN 1 ELSE 0)
                     /\ (~IsNaN(x) /\ x.t \in {10 * lo, 10 * hi}) => AlertCount(p, m) = 0
                     /\ (~IsNaN(x) /\ x.t \in {10 * (lo - 1), 10 * (hi + 1)})
                           => AlertCount(p, m) = 1
            /\ snap[p]["temperature"] \in {PFloat(150), PFloat(300)}
                  => AlertCount(p, "temperature") = 0
            /\ snap[p]["temperature"] \in {PFloat(140), PFloat(310)}
                  => AlertCount(p, "temperature") = 1

\* One poll with a metric at min, one at max, one a unit above max and a NaN.
C10_Witness ==
    /\ pc[EvalPoller] = "ret"
    /\ IsNaN(snap[EvalPoller]["temperature"])
    /\ AlertCount(EvalPoller, "temperature") = 1
    /\ snap[EvalPoller]["humidity"] = PFloat(300)
    /\ AlertCount(EvalPoller, "humidity") = 0
    /\ \E m \in MetricNames(variant) :
          /\ snap[EvalPoller][m] = PInt(THRESHOLDS(variant)[m][2] + 1)
          /\ AlertCount(EvalPoller, m) = 1
    /\ \E m \in MetricNames(variant) :
          /\ snap[EvalPoller][m] = PInt(THRESHOLDS(variant)[m][2])
          /\ AlertCount(EvalPoller, m) = 0

\* Position of a key in a sequence of keys.
PosIn(keys, k) == CHOOSE i \in 1..Len(keys) : keys[i] = k
\* The alerts of a finished poll follow the order of keys.
AlertsFollow(p, keys) ==
    \A i \in 1..Len(alerts[p]), j \in 1..Len(alerts[p]) :
        i < j => PosIn(keys, alerts[p][i].metric) < PosIn(keys, alerts[p][j].metric)

\* C11 as stated: the alerts of a poll follow the order in which THRESHOLDS
\* declares the metrics, in both programs.
C11_ThresholdOrder ==
    \A p \in Pollers : pc[p] = "ret" => AlertsFollow(p, ThresholdKeys(variant))

\* C11 amended: the alerts of a poll follow the order in which latest_data
\* declares the metrics; in src/app.py that is the order of THRESHOLDS too.
C11_AlertOrder ==
    \A p \in Pollers :
        pc[p] = "ret" =>
            /\ AlertsFollow(p, LatestDataKeys(variant))
            /\ variant = "app" => AlertsFollow(p, ThresholdKeys(variant))

\* A poll of the MQTT program with every metric out of range.
C11_Witness ==
    /\ variant = "vs"
    /\ pc[EvalPoller] = "ret"
    /\ Len(alerts[EvalPoller]) = 6
    /\ alerts[EvalPoller][4].metric = "iaq"
    /\ alerts[EvalPoller][6].metric = "eco2"

\* The metrics of a snapshot that lie outside their inclusive range.
OutOfRange(v, s) ==
    {m \in MetricNames(v) :
        ~(~IsNaN(s[m]) /\ 10 * THRESHOLDS(v)[m][1] <= s[m].t
                       /\ s[m].t <= 10 * THRESHOLDS(v)[m][2])}

\* Where the i-th alert starts in the joined text, less one.
RECURSIVE OffsetOf(_, _)
OffsetOf(as, i) == IF i = 1 THEN 0 ELSE OffsetOf(as, i - 1) + Len(as[i - 1].message) + 1

\* C12: a poll evaluates the one snapshot it read; its alert text is empty iff
\* every metric is within its inclusive range, and otherwise it is one alert
\* per out-of-range metric with ' | ' between consecutive alerts.
C12_CombinedAlerts ==
    \A p \in Pollers :
        pc[p] = "ret" =>
            LET out == OutOfRange(variant, snap[p])
                as == alerts[p]
                k == Len(as)
                msg == Output(p).alert_message
            IN /\ snap[p] = Metrics(latest_data)
               /\ k = Cardinality(out)
               /\ \A m \in MetricNames(variant) :
                     AlertCount(p, m) = (IF m \in out THEN 1 ELSE 0)
               /\ (Len(msg) = 0) <=> (out = {})
               /\ k > 0 =>
                     /\ Len(msg) = OffsetOf(as, k) + Len(as[k].message)
                     /\ \A i \in 1..k :
                           SubSeq(msg, OffsetOf(as, i) + 1,
                                  OffsetOf(as, i) + Len(as[i].message)) = as[i].message
                     /\ \A i \in 2..k : msg[OffsetOf(as, i)] = " | "

\* A poll whose text joins exactly two alerts.
C12_Witness ==
    /\ pc[EvalPoller] = "ret"
    /\ Cardinality(OutOfRange(variant, snap[EvalPoller])) = 2
    /\ Len(alerts[EvalPoller]) = 2
    /\ Len(Output(EvalPoller).alert_message) =
          Len(alerts[EvalPoller][1].message) + 1 + Len(alerts[EvalPoller][2].message)

\* A step of poll p: its position or its locals change.
PollStep(p) == pc'[p] # pc[p] \/ snap'[p] # snap[p] \/ alerts'[p] # alerts[p]

\* Both polls have returned-to-be values and no update was applied since the
\* earlier of their reads.
SameReading == (\A p \in Pollers : pc[p] = "ret") /\ ~updated

\* C13: a poll never changes the live reading, values or timestamp, and two
\* polls with no update applied between their reads return identical metric
\* texts and an identical alert message.
C13_PureIdempotent ==
    [][ /\ \A p \in Pollers : PollStep(p) => latest_data' = latest_data
        /\ SameReading' =>
              \A p, q \in Pollers :
                  /\ snap'[p] = snap'[q]
                  /\ alerts'[p] = alerts'[q]
                  /\ Output(p)' = Output(q)' ]_vars

C13_Witness ==
    /\ SameReading
    /\ lastDoc # NoDoc
    /\ \E p \in Pollers : Len(alerts[p]) > 0
    /\ \E t \in Writers : pc[t] = "build"
    /\ Output("p1") = Output("p2")
\* C14: in every state the live reading holds a number for every schema
\* metric and its keys are exactly the schema metric names and timestamp,
\* whatever payloads were applied or rejected.
C14_KeySet ==
    /\ DOMAIN latest_data = MetricNames(variant) \cup {"timestamp"}
    /\ \A m \in MetricNames(variant) : latest_data[m].tag \in {"int", "float"}
    /\ latest_data["timestamp"].tag = "time"

C14_Witness ==
    /\ lastDoc.kind = "dict"
    /\ "extra" \in lastDoc.has
    /\ Metrics(latest_data) # Metrics(InitialData(variant))
    /\ \E t \in Writers : pc[t] = "err"
\* Thread t is inside a with data_lock block.
InCritical(t) ==
    IF t \in Writers THEN pc[t] \in {"build", "update", "unlock", "unwind"}
    ELSE pc[t] = "read"

\* C15: at most one thread is inside a critical section on the live reading,
\* and it is the holder of the lock: no two writes overlap and no copy-out
\* overlaps a write.
C15_MutualExclusion ==
    /\ Cardinality({t \in Threads : InCritical(t)}) <= 1
    /\ \A t \in Threads : InCritical(t) <=> data_lock = t

C15_Witness ==
    /\ \E t \in Writers : pc[t] = "update"
    /\ \E t \in Writers : pc[t] = "lock"
    /\ \E p \in Pollers : pc[p] = "lock"
\* No handler is inside its with data_lock block.
NoWriteInProgress == \A w \in Writers : ~InCritical(w)

\* C16 as stated: a poll that is about to copy out waits only for a write,
\* so with no write in progress it can enter, also during another poll's read.
C16_ReadersDontBlock ==
    \A p \in Pollers :
        pc[p] = "lock" /\ NoWriteInProgress => ENABLED PollAcquire(p)

\* C16: data_lock is one mutual-exclusion lock, so polls exclude each other
\* too: at most one poll is copying out, and a poll that is about to copy out
\* can enter exactly when neither a write nor another poll's read is in
\* progress.
C16_ReadersExclude ==
    /\ Cardinality({p \in Pollers : pc[p] = "read"}) <= 1
    /\ \A p \in Pollers :
          pc[p] = "lock" =>
             (ENABLED PollAcquire(p)
                <=> NoWriteInProgress /\ \A q \in Pollers \ {p} : pc[q] # "read")

C16_Witness ==
    /\ NoWriteInProgress
    /\ \E p, q \in Pollers :
          /\ pc[p] = "read"
          /\ pc[q] = "lock"
          /\ ~ENABLED PollAcquire(q)
\* C17 as stated: whenever a handler holds the lock, every value of its new
\* reading is already converted, and no failure is being raised.
C17_ConvertBeforeLock ==
    \A t \in Writers :
        data_lock = t =>
            /\ MetricNames(variant) \subseteq DOMAIN new_data[t]
            /\ pc[t] # "unwind"

\* C17: decoding, and in src/app.py the presence check, are done when a
\* handler takes the lock, but no value is converted yet; every subscript,
\* conversion and the reading of the clock happens with the lock held, a
\* failure among them is raised with the lock held, and unwinding frees it.
C17_LockScope ==
    [][\A t \in Writers :
          /\ data_lock' = t /\ data_lock # t =>
                /\ sensor_data[t].kind # "unset"
                /\ variant = "app" => AllRequired(sensor_data[t]) = Ok(PInt(1))
                /\ new_data'[t] = EmptyDict
          /\ new_data'[t] # new_data[t] /\ new_data'[t] # EmptyDict =>
                data_lock = t /\ data_lock' = t
          /\ pc'[t] = "unwind" /\ pc[t] # "unwind" =>
                exc'[t] # "" /\ data_lock = t /\ data_lock' = t
          /\ pc[t] = "unwind" /\ pc'[t] # "unwind" => data_lock' = Free
      ]_vars

C17_Witness ==
    \E t \in Writers :
        /\ pc[t] = "unwind"
        /\ data_lock = t
        /\ exc[t] = "invalid literal for int() with base 10"
        /\ new_data[t] # EmptyDict
\* Handler t takes the time for its new reading in this step.
Stamps(t) == "timestamp" \in DOMAIN new_data'[t] /\ "timestamp" \notin DOMAIN new_data[t]

\* Handler t stores its new reading in this step.
Applies(t) == pc[t] = "update" /\ pc'[t] = "unlock"

\* C18: the time of a new reading is the clock read by the handler while it
\* holds the lock, not a timestamp of the payload; a successful update stores
\* that time; a step that is not a successful update, a failing ingestion's
\* included, leaves the stored timestamp alone; and the stored timestamp never
\* decreases and is never ahead of the clock.
C18_Timestamp ==
    [][ /\ clock' >= clock
        /\ \A t \in Writers :
              /\ Stamps(t) => new_data'[t]["timestamp"] = PTime(clock) /\ data_lock = t
              /\ Applies(t) => /\ latest_data'["timestamp"] = new_data[t]["timestamp"]
                               /\ lastDoc' = sensor_data[t]
              /\ pc'[t] # pc[t] /\ pc'[t] \in {"unwind", "err", "ret400"} =>
                    latest_data'["timestamp"] = latest_data["timestamp"]
        /\ latest_data'["timestamp"] # latest_data["timestamp"] =>
              \E t \in Writers : Applies(t)
        /\ latest_data'["timestamp"].tag = "time"
        /\ latest_data'["timestamp"].t >= latest_data["timestamp"].t
        /\ latest_data'["timestamp"].t <= clock'
      ]_vars

C18_Witness ==
    /\ clock = MaxClock
    /\ latest_data["timestamp"] = PTime(MaxClock)
    /\ "timestamp" \in lastDoc.has
    /\ \E t \in Writers : pc[t] = "err" /\ sensor_data[t].kind = "dict"
\* Thread t has started a handler or a poll and not yet returned.
Started(t) == pc[t] # "idle"

Logs == pc[MqttThread] = "ok" /\ pc'[MqttThread] # "ok" /\ printed' = latest_data

\* C20: every step that writes the live reading, copies a field out of it
\* for a poll, or reads it for the callback's log is taken by the thread that
\* holds the lock.
C20_LockGuarded ==
    [][ /\ latest_data' # latest_data =>
              \E t \in Writers : data_lock = t /\ pc[t] # pc'[t]
        /\ \A p \in Pollers :
              snap'[p] # snap[p] /\ snap'[p] # EmptyDict => data_lock = p
        /\ Logs => data_lock = MqttThread
      ]_vars
====
